---- MODULE Spec2Model ----
(***************************************************************************)
(* Model of aspeak's audio format selection, src/aspeak/api/format.py:     *)
(* the FileFormat enum, the AudioFormat class (a Quality Selection that    *)
(* resolves its identifier in the constructor) and parse_format (the       *)
(* normalisation of the three accepted argument shapes).                   *)
(*                                                                         *)
(* The module imports QUALITIES from aspeak/quality.  The table is taken    *)
(* as section 4.1 of the specification describes it: a mapping from every  *)
(* container to a non-empty ordered sequence of provider identifiers,      *)
(* tier 0 first.  Several shapes of that table are explored.               *)
(***************************************************************************)
EXTENDS Integers, Sequences, FiniteSets, TLC

\* ------------------------------------------------------------------ bounds

\* The longest row of the quality table that is explored.
MaxTiers == 2

\* The number of AudioFormat instances kept alive at the same time.
MaxObjects == 2

\* The number of threads of the concurrent specification.
NThreads == 2

\* ------------------------------------------------------------- data model

\* FileFormat: the values of the enum members WAV, MP3, OGG, WEBM.
FileFormat == {"wav", "mp3", "ogg", "webm"}

\* Position of each member in the enum's definition order.
FileFormatOrder == [wav |-> 1, mp3 |-> 2, ogg |-> 3, webm |-> 4]

\* speechsdk.SpeechSynthesisOutputFormat is an enumeration owned by the SDK;
\* a member is modelled by its integer code.  FormatCode(f, i) is the member
\* the provider assigns to tier i (0-based) of container f.
FormatCode(f, i) == 10 * FileFormatOrder[f] + i

\* Members of the SDK's enumeration that no row of the table uses.
OtherFormats == {1, 2}

SpeechSynthesisOutputFormat ==
    {FormatCode(f, i) : f \in FileFormat, i \in 0..(MaxTiers - 1)} \cup OtherFormats

\* A row of n tiers for container f.
Row(f, n) == [i \in 1..n |-> FormatCode(f, i - 1)]

\* The shapes of the table that are explored: every row of one tier, every
\* row of MaxTiers tiers, and rows of decreasing length (wav the longest).
Max(a, b) == IF a >= b THEN a ELSE b

TierCounts ==
    { [f \in FileFormat |-> 1],
      [f \in FileFormat |-> MaxTiers],
      [f \in FileFormat |-> Max(1, MaxTiers + 1 - FileFormatOrder[f])] }

QualityTables == { [f \in FileFormat |-> Row(f, n[f])] : n \in TierCounts }

\* Python values that reach parse_format, tagged with their runtime type.
\* val: the instance's identity (AudioFormat), the member's code
\* (SpeechSynthesisOutputFormat), the member's position (FileFormat), the
\* number (int); 0 for None and for the string "invalid".
Value(t, v) == [type |-> t, val |-> v]
NoneValue == Value("NoneType", 0)
NoValue == Value("-", 0)

\* The quality arguments tried: below every row's negative range, inside it,
\* the valid indices and beyond every row's end.
QualityInputs == (0 - (MaxTiers + 1))..(MaxTiers + 1)

VARIABLES
    QUALITIES,  \* the module-level table imported from ..quality
    objects,    \* the live AudioFormat instances: objects[i]._format
    result,     \* the outcome of the last call made
    threads     \* the frames of the threads (concurrent specification)

vars == <<QUALITIES, objects, result, threads>>

\* --------------------------------------------------------- pure operators

\* Outcome of an evaluation: the exception raised ("ok" when none) and the
\* value produced (0 when an exception was raised).
Outcome(status, value) == [status |-> status, value |-> value]

\* seq[i] on a Python sequence: indices 0..len-1 count from the front,
\* -len..-1 from the back, anything else raises IndexError.
ListGetItem(seq, i) ==
    IF 0 <= i /\ i < Len(seq) THEN Outcome("ok", seq[i + 1])
    ELSE IF 0 - Len(seq) <= i /\ i < 0 THEN Outcome("ok", seq[Len(seq) + i + 1])
    ELSE Outcome("IndexError", 0)

\* Faulty variants of the constructor's lookup: the row of the default
\* container whatever the container asked for; an index past the end clamped
\* to the last tier.
AudioFormat__init__WrongRow(Q, file_format, quality) ==
    ListGetItem(Q["wav"], quality)

AudioFormat__init__Clamp(Q, file_format, quality) ==
    IF quality >= Len(Q[file_format])
    THEN ListGetItem(Q[file_format], Len(Q[file_format]) - 1)
    ELSE ListGetItem(Q[file_format], quality)

\* AudioFormat.__init__: self._format = QUALITIES[file_format.value][quality].
\* The exception of the subscript, if any, leaves the constructor.
AudioFormat__init__(Q, file_format, quality) ==
    ListGetItem(Q[file_format], quality)

\* AudioFormat.format: the property returns self._format.
AudioFormat_format(objs, ref) == objs[ref]._format

\* Faulty variants of parse_format.  Each differs from parse_format in one
\* branch, chosen by `fault`.
parse_formatWith(fault, Q, objs, args) ==
    IF Len(args) # 1
    THEN IF fault = "default_arg" /\ args = <<>>
         THEN [status |-> "ok", value |-> Q["wav"][1], message |-> NoValue,
               lookups |-> 1]
         ELSE [status |-> "TypeError", value |-> 0, message |-> NoValue,
               lookups |-> 0]
    ELSE LET audio_format == args[1] IN
         IF audio_format.type = "AudioFormat"
         THEN IF fault = "reresolve"
              THEN [status |-> "ok", value |-> Q["wav"][1], message |-> NoValue,
                    lookups |-> 1]
              ELSE [status |-> "ok", value |-> objs[audio_format.val]._format,
                    message |-> NoValue, lookups |-> 0]
         ELSE IF audio_format.type = "SpeechSynthesisOutputFormat"
         THEN IF fault = "validate"
                 /\ \A f \in FileFormat : \A i \in 1..Len(Q[f]) :
                        Q[f][i] # audio_format.val
              THEN [status |-> "ok", value |-> Q["wav"][1], message |-> NoValue,
                    lookups |-> 1]
              ELSE [status |-> "ok", value |-> audio_format.val,
                    message |-> NoValue, lookups |-> 0]
         ELSE IF audio_format = NoneValue
         THEN [status |-> "ok",
               value |-> IF fault = "default_last" THEN Q["wav"][Len(Q["wav"])]
                         ELSE Q["wav"][1],
               message |-> NoValue, lookups |-> 1]
         ELSE IF fault = "lenient"
              THEN [status |-> "ok", value |-> Q["wav"][1], message |-> NoValue,
                    lookups |-> 1]
              ELSE [status |-> "ValueError", value |-> 0,
                    message |-> audio_format, lookups |-> 0]

parse_formatDefaultArg(Q, objs, args) == parse_formatWith("default_arg", Q, objs, args)
parse_formatReresolve(Q, objs, args) == parse_formatWith("reresolve", Q, objs, args)
parse_formatValidate(Q, objs, args) == parse_formatWith("validate", Q, objs, args)
parse_formatDefaultLast(Q, objs, args) == parse_formatWith("default_last", Q, objs, args)
parse_formatLenient(Q, objs, args) == parse_formatWith("lenient", Q, objs, args)

\* What parse_format does with its argument list.  The signature declares one
\* positional parameter without a default, so a call that does not bind it
\* raises TypeError before the body runs.  lookups counts the subscripts of
\* QUALITIES the call performs.
parse_format(Q, objs, args) ==
    IF Len(args) # 1
    THEN [status |-> "TypeError", value |-> 0, message |-> NoValue, lookups |-> 0]
    ELSE LET audio_format == args[1] IN
         IF audio_format.type = "AudioFormat"
         THEN [status |-> "ok", value |-> AudioFormat_format(objs, audio_format.val),
               message |-> NoValue, lookups |-> 0]
         ELSE IF audio_format.type = "SpeechSynthesisOutputFormat"
         THEN [status |-> "ok", value |-> audio_format.val,
               message |-> NoValue, lookups |-> 0]
         ELSE IF audio_format = NoneValue
         THEN LET item == ListGetItem(Q["wav"], 0) IN
              [status |-> item.status, value |-> item.value,
               message |-> NoValue, lookups |-> 1]
         ELSE [status |-> "ValueError", value |-> 0,
               message |-> audio_format, lookups |-> 0]

\* The arguments parse_format is called with: nothing, or one value of any of
\* the shapes below (instances are the live ones).
ParseValues(objs) ==
    {Value("AudioFormat", i) : i \in 1..Len(objs)}
    \cup {Value("SpeechSynthesisOutputFormat", c) : c \in SpeechSynthesisOutputFormat}
    \cup {NoneValue, Value("str", 0)}
    \cup {Value("FileFormat", FileFormatOrder[f]) : f \in FileFormat}
    \cup {Value("int", n) : n \in {0, 1}}

ParseInputs(objs) == {<<>>} \cup {<<v>> : v \in ParseValues(objs)}

\* ------------------------------------------------------------ the frames

IdleFrame ==
    [pc |-> "idle", op |-> "-", file_format |-> "-", quality |-> 0, args |-> <<>>,
     row |-> <<>>, item |-> 0, status |-> "-", value |-> 0, message |-> NoValue,
     expected |-> Outcome("-", 0)]

Threads == 1..NThreads

NoResult ==
    [op |-> "-", file_format |-> "-", quality |-> 0, args |-> <<>>,
     status |-> "-", value |-> 0, ref |-> 0, message |-> NoValue, lookups |-> 0]

\* ------------------------------------------------- sequential specification

Init ==
    /\ QUALITIES \in QualityTables
    /\ objects = <<>>
    /\ result = NoResult
    /\ threads = [t \in Threads |-> IdleFrame]

\* Faulty variant of the constructor: _format kept on the class, so that
\* every instance reads the identifier resolved last.
NewAudioFormatClassAttr(file_format, quality) ==
    LET r == AudioFormat__init__(QUALITIES, file_format, quality) IN
    /\ r.status = "ok" => Len(objects) < MaxObjects
    /\ objects' = IF r.status = "ok"
                  THEN [i \in 1..(Len(objects) + 1) |-> [_format |-> r.value]]
                  ELSE objects
    /\ result' = [op |-> "AudioFormat", file_format |-> file_format,
                  quality |-> quality, args |-> <<>>, status |-> r.status,
                  value |-> r.value,
                  ref |-> IF r.status = "ok" THEN Len(objects) + 1 ELSE 0,
                  message |-> NoValue, lookups |-> 1]
    /\ UNCHANGED <<QUALITIES, threads>>

\* AudioFormat(file_format, quality): the constructor runs; the instance
\* exists only when it returns normally.
NewAudioFormat(file_format, quality) ==
    LET r == AudioFormat__init__(QUALITIES, file_format, quality) IN
    /\ r.status = "ok" => Len(objects) < MaxObjects
    /\ objects' = IF r.status = "ok" THEN Append(objects, [_format |-> r.value])
                  ELSE objects
    /\ result' = [op |-> "AudioFormat", file_format |-> file_format,
                  quality |-> quality, args |-> <<>>, status |-> r.status,
                  value |-> r.value,
                  ref |-> IF r.status = "ok" THEN Len(objects) + 1 ELSE 0,
                  message |-> NoValue, lookups |-> 1]
    /\ UNCHANGED <<QUALITIES, threads>>

\* Faulty variant of parse_format: the default taken with pop(0), which
\* removes tier 0 from the table's wav row.
ParseFormatPop(args) ==
    LET r == parse_format(QUALITIES, objects, args) IN
    /\ result' = [op |-> "parse_format", file_format |-> "-", quality |-> 0,
                  args |-> args, status |-> r.status, value |-> r.value,
                  ref |-> 0, message |-> r.message, lookups |-> r.lookups]
    /\ QUALITIES' = IF args = <<NoneValue>> /\ Len(QUALITIES["wav"]) > 0
                    THEN [QUALITIES EXCEPT !["wav"] = Tail(@)]
                    ELSE QUALITIES
    /\ UNCHANGED <<objects, threads>>

\* parse_format(*args)
ParseFormat(args) ==
    LET r == parse_format(QUALITIES, objects, args) IN
    /\ result' = [op |-> "parse_format", file_format |-> "-", quality |-> 0,
                  args |-> args, status |-> r.status, value |-> r.value,
                  ref |-> 0, message |-> r.message, lookups |-> r.lookups]
    /\ UNCHANGED <<QUALITIES, objects, threads>>

Next ==
    \/ \E file_format \in FileFormat, quality \in QualityInputs :
           NewAudioFormat(file_format, quality)
    \/ \E args \in ParseInputs(objects) : ParseFormat(args)

Spec == Init /\ [][Next]_vars

\* ------------------------------------------------- concurrent specification
\* Threads make the same calls, interleaved at the granularity of the
\* interpreter's steps: each read of the shared table or of a shared
\* instance is a step of its own, and the intermediate values live in the
\* calling thread's frame.

\* The quality arguments the threads use: one counted from the end, tier 0
\* and one past the longest row.
ThreadQualities == {0 - 1, 0, MaxTiers}

\* The arguments the threads pass to parse_format.
ThreadParseInputs ==
    {<<>>}
    \cup {<<Value("AudioFormat", i)>> : i \in 1..Len(objects)}
    \cup {<<Value("SpeechSynthesisOutputFormat", FormatCode("mp3", 0))>>,
          <<NoneValue>>, <<Value("str", 0)>>}

\* The instances the threads share: built before the threads start.
SharedObjects(Q) ==
    << [_format |-> AudioFormat__init__(Q, "wav", 0).value],
       [_format |-> AudioFormat__init__(Q, "ogg", 0 - 1).value] >>

InitThreads ==
    /\ QUALITIES \in QualityTables
    /\ objects = SharedObjects(QUALITIES)
    /\ result = NoResult
    /\ threads = [t \in Threads |-> IdleFrame]

\* Faulty variant of StoreRow: the row kept in one module-level temporary
\* that every thread reads and writes.
StoreRowShared(t, row, pc) ==
    [u \in Threads |-> IF u = t THEN [threads[u] EXCEPT !.row = row, !.pc = pc]
                       ELSE [threads[u] EXCEPT !.row = row]]

\* The row read from the table is kept on the evaluation stack of the
\* calling thread's frame.
StoreRow(t, row, pc) == [threads EXCEPT ![t] = [@ EXCEPT !.row = row, !.pc = pc]]

\* The frame of a call that has ended, normally or with an exception.
Finish(t, status, value, message) ==
    [threads EXCEPT ![t] = [@ EXCEPT !.pc = "done", !.status = status,
                                     !.value = value, !.message = message]]

\* A thread calls AudioFormat(file_format, quality).  expected records what
\* the call returns when nothing else runs.
CallAudioFormat(t, file_format, quality) ==
    /\ threads[t].pc = "idle"
    /\ threads' = [threads EXCEPT ![t] =
           [IdleFrame EXCEPT !.pc = "init_row", !.op = "AudioFormat",
                             !.file_format = file_format, !.quality = quality,
                             !.expected = AudioFormat__init__(QUALITIES, file_format, quality)]]
    /\ UNCHANGED <<QUALITIES, objects, result>>

\* QUALITIES[file_format.value]
InitRow(t) ==
    /\ threads[t].pc = "init_row"
    /\ threads' = StoreRow(t, QUALITIES[threads[t].file_format], "init_item")
    /\ UNCHANGED <<QUALITIES, objects, result>>

\* ...[quality]: the subscript of the row, which may raise.
InitItem(t) ==
    /\ threads[t].pc = "init_item"
    /\ LET item == ListGetItem(threads[t].row, threads[t].quality) IN
       threads' = IF item.status = "ok"
                  THEN [threads EXCEPT ![t] = [@ EXCEPT !.item = item.value,
                                                        !.pc = "init_store"]]
                  ELSE Finish(t, item.status, 0, NoValue)
    /\ UNCHANGED <<QUALITIES, objects, result>>

\* self._format = ...: the store into the instance under construction, which
\* no other thread has a reference to.
InitStore(t) ==
    /\ threads[t].pc = "init_store"
    /\ threads' = Finish(t, "ok", threads[t].item, NoValue)
    /\ UNCHANGED <<QUALITIES, objects, result>>

\* A thread calls parse_format(*args).
CallParseFormat(t, args) ==
    /\ threads[t].pc = "idle"
    /\ LET e == parse_format(QUALITIES, objects, args) IN
       threads' = [threads EXCEPT ![t] =
           [IdleFrame EXCEPT !.pc = "parse_bind", !.op = "parse_format",
                             !.args = args,
                             !.expected = Outcome(e.status, e.value)]]
    /\ UNCHANGED <<QUALITIES, objects, result>>

\* The binding of the arguments and the isinstance tests, which read only
\* the frame.
ParseDispatch(t) ==
    /\ threads[t].pc = "parse_bind"
    /\ LET args == threads[t].args IN
       threads' =
           IF Len(args) # 1 THEN Finish(t, "TypeError", 0, NoValue)
           ELSE IF args[1].type = "AudioFormat"
           THEN [threads EXCEPT ![t] = [@ EXCEPT !.pc = "parse_format_attr"]]
           ELSE IF args[1].type = "SpeechSynthesisOutputFormat"
           THEN Finish(t, "ok", args[1].val, NoValue)
           ELSE IF args[1] = NoneValue
           THEN [threads EXCEPT ![t] = [@ EXCEPT !.pc = "parse_row"]]
           ELSE Finish(t, "ValueError", 0, args[1])
    /\ UNCHANGED <<QUALITIES, objects, result>>

\* return audio_format.format: the read of the shared instance.
ParseFormatAttr(t) ==
    /\ threads[t].pc = "parse_format_attr"
    /\ threads' = Finish(t, "ok",
                         AudioFormat_format(objects, threads[t].args[1].val), NoValue)
    /\ UNCHANGED <<QUALITIES, objects, result>>

\* QUALITIES['wav']
ParseRow(t) ==
    /\ threads[t].pc = "parse_row"
    /\ threads' = StoreRow(t, QUALITIES["wav"], "parse_item")
    /\ UNCHANGED <<QUALITIES, objects, result>>

\* ...[0]
ParseItem(t) ==
    /\ threads[t].pc = "parse_item"
    /\ LET item == ListGetItem(threads[t].row, 0) IN
       threads' = Finish(t, item.status, item.value, NoValue)
    /\ UNCHANGED <<QUALITIES, objects, result>>

\* The caller takes the outcome; the thread is free for its next call.
Return(t) ==
    /\ threads[t].pc = "done"
    /\ threads' = [threads EXCEPT ![t] = IdleFrame]
    /\ UNCHANGED <<QUALITIES, objects, result>>

NextThreads ==
    \E t \in Threads :
        \/ \E file_format \in FileFormat, quality \in ThreadQualities :
               CallAudioFormat(t, file_format, quality)
        \/ InitRow(t)
        \/ InitItem(t)
        \/ InitStore(t)
        \/ \E args \in ThreadParseInputs : CallParseFormat(t, args)
        \/ ParseDispatch(t)
        \/ ParseFormatAttr(t)
        \/ ParseRow(t)
        \/ ParseItem(t)
        \/ Return(t)

SpecThreads == InitThreads /\ [][NextThreads]_vars

\* ------------------------------------------------------------ the claims

IsConstruction == result.op = "AudioFormat"
IsParse == result.op = "parse_format"
ParsedShape(t) == IsParse /\ Len(result.args) = 1 /\ result.args[1].type = t
ResultRow == QUALITIES[result.file_format]

\* C1: for every container and every quality index valid for it (0 up to
\* the row's length, exclusive), the construction succeeds and the new
\* instance's identifier is the table's entry at that container and index.
C1_ValidIndexResolves ==
    (IsConstruction /\ 0 <= result.quality /\ result.quality < Len(ResultRow))
        => /\ result.status = "ok"
           /\ result.ref \in 1..Len(objects)
           /\ AudioFormat_format(objects, result.ref) = ResultRow[result.quality + 1]

C1_Witness ==
    /\ IsConstruction /\ result.file_format = "mp3"
    /\ result.quality > 0 /\ result.quality < Len(ResultRow)
    /\ result.status = "ok"

C3_SelectionReturnsStored ==
    ParsedShape("AudioFormat")
        => /\ result.status = "ok"
           /\ result.value = objects[result.args[1].val]._format
           /\ result.lookups = 0

C3_Witness ==
    /\ ParsedShape("AudioFormat") /\ result.args[1].val = 2
    /\ objects[1]._format # objects[2]._format
    /\ objects[2]._format # QUALITIES["wav"][1]
    /\ result.status = "ok"

\* C4: parse_format of a provider-native identifier returns that identifier,
\* whether or not the table holds it.
C4_NativePassesThrough ==
    ParsedShape("SpeechSynthesisOutputFormat")
        => /\ result.status = "ok"
           /\ result.value = result.args[1].val
           /\ result.lookups = 0

C4_Witness ==
    /\ ParsedShape("SpeechSynthesisOutputFormat")
    /\ result.args[1].val \in OtherFormats
    /\ result.status = "ok"

\* C5: parse_format(None) returns the table's entry for wav at tier 0, the
\* identifier an AudioFormat(FileFormat.WAV, 0) resolves to.
C5_NoneGivesDefault ==
    /\ (IsParse /\ result.args = <<NoneValue>>)
           => result.status = "ok" /\ result.value = QUALITIES["wav"][1]
    /\ (IsConstruction /\ result.file_format = "wav" /\ result.quality = 0)
           => /\ result.status = "ok"
              /\ AudioFormat_format(objects, result.ref)
                     = parse_format(QUALITIES, objects, <<NoneValue>>).value

C5_Witness ==
    /\ IsParse /\ result.args = <<NoneValue>> /\ result.status = "ok"
    /\ Len(QUALITIES["wav"]) > 1
    /\ \E i \in 1..Len(objects) : objects[i]._format = result.value

\* C6, as stated: parse_format called with no argument at all returns the
\* table's entry for wav at tier 0.
C6_NoArgumentGivesDefault ==
    (IsParse /\ result.args = <<>>)
        => result.status = "ok" /\ result.value = QUALITIES["wav"][1]

\* C6, amended: parse_format called with no argument at all fails with a
\* TypeError (its one parameter has no default) and returns no identifier.
C6_NoArgumentIsTypeError ==
    (IsParse /\ result.args = <<>>)
        => result.status = "TypeError" /\ result.value = 0 /\ result.lookups = 0

C6_Witness == IsParse /\ result.args = <<>> /\ result.status = "TypeError"

\* C7: parse_format of a value that is neither an instance, nor a
\* provider-native identifier, nor None fails with ValueError, the message
\* carrying the value, and returns no identifier.
C7_OtherShapesRejected ==
    (IsParse /\ Len(result.args) = 1
       /\ result.args[1].type \notin {"AudioFormat", "SpeechSynthesisOutputFormat", "NoneType"})
        => /\ result.status = "ValueError"
           /\ result.message = result.args[1]
           /\ result.value = 0

C7_Witness ==
    /\ ParsedShape("str") /\ result.status = "ValueError"
    /\ result.message = Value("str", 0)

\* C8: no call changes the table, and parse_format leaves every instance
\* as it was.
C8_TableAndArgumentUntouched ==
    [][/\ QUALITIES' = QUALITIES
       /\ result'.op = "parse_format" => objects' = objects]_vars

C8_Witness ==
    /\ IsParse /\ result.args = <<NoneValue>>
    /\ Len(objects) = MaxObjects

\* C9: under every interleaving of the threads' steps, each call ends with
\* the outcome (the identifier returned or the exception raised) it has when
\* it runs alone.
C9_InterleavingsAgreeWithAlone ==
    \A t \in Threads :
        threads[t].pc = "done"
            => /\ threads[t].status = threads[t].expected.status
               /\ threads[t].value = threads[t].expected.value

\* Two calls that read different rows have both ended, so each ran while
\* the other was between its steps or had ended.
C9_Witness ==
    \E t, u \in Threads :
        /\ threads[t].pc = "done" /\ threads[u].pc = "done"
        /\ threads[t].op = "AudioFormat" /\ threads[t].file_format = "mp3"
        /\ threads[t].status = "ok"
        /\ threads[u].op = "parse_format" /\ threads[u].args = <<NoneValue>>
        /\ threads[u].status = "ok"
        /\ threads[t].value # threads[u].value

\* C10: an instance's identifier never changes once the constructor has
\* stored it: every step keeps every live instance and its identifier, and
\* the identifier of a new instance is the one its constructor looked up.
C10_SelectionImmutable ==
    [][/\ \A i \in 1..Len(objects) :
              i <= Len(objects') /\ objects'[i]._format = objects[i]._format
       /\ Len(objects') > Len(objects)
              => /\ result'.op = "AudioFormat"
                 /\ objects'[Len(objects')]._format = result'.value]_vars

C10_Witness ==
    /\ Len(objects) = 2 /\ objects[1]._format # objects[2]._format
    /\ ParsedShape("AudioFormat") /\ result.args[1].val = 1

====
